---- MODULE Spec2Model ----
(***************************************************************************)
(* MPPI controller for a differential drive robot                          *)
(* (src/mppi_differential_drive.ipynb).                                    *)
(*                                                                         *)
(* Numbers.  The program computes in binary floating point; the model      *)
(* computes on an integer grid:                                            *)
(*   - an angle is a whole number of quarter turns, so PI is 2 and         *)
(*     cos/sin are exact (1, 0, -1, 0);                                    *)
(*   - a division rounds to the nearest grid point (RoundDiv);             *)
(*   - exp(-(1/lambda) * d) is the fixed-point value 2^(ExpBits - q),      *)
(*     q = d \div lambda, and underflows to 0 past ExpBits halvings, as    *)
(*     np.exp underflows to 0.0; a weight is kept as the exact fraction    *)
(*     num / den, and den = 0 stands for the NaN of a division by 0.0.     *)
(*                                                                         *)
(* Storage.  self.u_prev is one numpy array for the life of the solver.    *)
(* `heap` maps array names to contents; a local name or a returned value   *)
(* that is a reference or a view is kept as a handle into `heap`, so that  *)
(* two names of one array stay two names of one array.                     *)
(***************************************************************************)
EXTENDS Integers, Sequences, FiniteSets, TLC

VARIABLES
    cfg,        \* the constructor arguments (T, K, sigma, exploration, flags)
    solver,     \* "unbuilt" | "built" | "rejected": outcome of __init__
    heap,       \* array name -> contents; "u_prev" is self.u_prev
    pc,         \* position inside calc_control_input
    x0,         \* observed_x of the running call
    epsilon,    \* the K x T noise of the running call
    v,          \* the K x T sampled controls of the running call
    S,          \* the K sample costs of the running call
    updated,    \* history: u right after  u += w_epsilon  of the last call
    seen,       \* history: u as loaded at entry, then as each rollout read it
    drawn,      \* history: the noise as _calc_epsilon returned it
    w_epsilon,  \* the weighted noise of the running call, before smoothing
    received,   \* history: the values of action and sequence at the return
    ret,        \* what the last call handed back (handles, or the exception)
    k,          \* samples rolled out so far in the running call
    calls,      \* number of calls started
    probe       \* a pure function applied to an input: [op, arg, out]

vars == <<cfg, solver, heap, pc, x0, epsilon, v, S, updated, seen, drawn,
          w_epsilon, received, ret, k, calls, probe>>

solverVars == <<cfg, solver, heap, pc, x0, epsilon, v, S, updated, seen, drawn,
                w_epsilon, received, ret, k, calls>>

----------------------------------------------------------------------------
(* Program constants: the values the notebook's main passes for the        *)
(* horizon, lambda and alpha, the constructor's defaults for the rest.     *)

PI == 2                     \* np.pi, in quarter turns
dim_u == 2
dim_x == 3
max_linear_vel == 2
max_angular_vel == 2
delta_t == 1
robot_max_linear_vel == 2   \* the limits and the step of DifferentialDriveRobot
robot_max_angular_vel == 2
robot_delta_t == 1
param_lambda == 100
window_size == 10
horizon_step_T == 10
goal == <<15, 5, 0>>
stage_cost_weight == <<50, 50, 1>>
terminal_cost_weight == <<50, 50, 1>>
\* param_gamma = param_lambda * (1 - param_alpha), param_alpha = 0.98 = 49/50
\* as the notebook's main sets it
param_alpha_num == 49
param_alpha_den == 50
param_gamma == (param_lambda * (param_alpha_den - param_alpha_num)) \div param_alpha_den
\* the robot footprint, in centimetres, and the safety margin 1.2 = 12/10
robot_w == 60
robot_l == 80
safety_margin_rate_num == 12
safety_margin_rate_den == 10

(* Bounds of the model.                                                    *)
ExpBits == 8                \* halvings before exp underflows to 0
MaxK == 3                   \* longest cost vector given to _compute_weights
MaxT == 12                  \* longest sequence given to the filter
MaxCalls == 2               \* calls of calc_control_input per solver
MaxTurn == 8                \* headings range over -MaxTurn .. MaxTurn

----------------------------------------------------------------------------
(* Arithmetic helpers.                                                     *)

Abs(a) == IF a < 0 THEN -a ELSE a

\* a / b rounded to the nearest integer, b > 0
RoundDiv(a, b) == (2 * a + b) \div (2 * b)

RECURSIVE SumSeq(_)
SumSeq(s) == IF s = <<>> THEN 0 ELSE Head(s) + SumSeq(Tail(s))

RECURSIVE MinSeq(_)
MinSeq(s) == IF Len(s) = 1 THEN s[1]
             ELSE LET m == MinSeq(Tail(s)) IN IF s[1] < m THEN s[1] ELSE m

RECURSIVE Pow2(_)
Pow2(n) == IF n <= 0 THEN 1 ELSE 2 * Pow2(n - 1)

\* np.clip
Clip(a, lo, hi) == IF a < lo THEN lo ELSE IF a > hi THEN hi ELSE a

\* np.cos, np.sin on quarter turns
Cos(a) == LET r == a % (2 * PI) IN
          IF r = 0 THEN 1 ELSE IF r = PI THEN -1 ELSE 0

Sin(a) == Cos(a - 1)

\* np.exp((-1.0/self.param_lambda) * d), fixed point with ExpBits fraction bits
ExpNeg(d) == LET q == d \div param_lambda IN
             IF q > ExpBits THEN 0 ELSE Pow2(ExpBits - q)

----------------------------------------------------------------------------
(* The pure functions of the controller.                                   *)

\* _g: saturate a control (the caller's array slot receives the result)
_g(u) == << Clip(u[1], -max_linear_vel, max_linear_vel),
            Clip(u[2], -max_angular_vel, max_angular_vel) >>

_F_wrapped(x_t, v_t) == << x_t[1] + v_t[1] * Cos(x_t[3]) * delta_t,
                           x_t[2] + v_t[1] * Sin(x_t[3]) * delta_t,
                           ((x_t[3] + v_t[2] * delta_t + PI) % (2 * PI)) - PI >>

\* _F: one step of the differential drive kinematics
_F(x_t, v_t) == << x_t[1] + v_t[1] * Cos(x_t[3]) * delta_t,
                   x_t[2] + v_t[1] * Sin(x_t[3]) * delta_t,
                   x_t[3] + v_t[2] * delta_t >>

\* dt = self.delta_t if delta_t == 0.0 else delta_t
update_dt(dt_arg) == IF dt_arg = 0 THEN robot_delta_t ELSE dt_arg

\* DifferentialDriveRobot.update: the new self.state from state, u and delta_t
update(state, u, dt_arg) ==
    LET dt == update_dt(dt_arg)
        vv == Clip(u[1], -robot_max_linear_vel, robot_max_linear_vel)
        ww == Clip(u[2], -robot_max_angular_vel, robot_max_angular_vel)
    IN  << state[1] + vv * Cos(state[3]) * dt,
           state[2] + vv * Sin(state[3]) * dt,
           state[3] + ww * dt >>

\* the heading error of _c and _phi
yaw_error_left_open(yaw, gyaw) == PI - ((gyaw - yaw + PI) % (2 * PI))
yaw_error(yaw, gyaw) == ((yaw - gyaw + PI) % (2 * PI)) - PI

\* _c: stage cost
_c(x_t) == stage_cost_weight[1] * (x_t[1] - goal[1]) * (x_t[1] - goal[1])
         + stage_cost_weight[2] * (x_t[2] - goal[2]) * (x_t[2] - goal[2])
         + stage_cost_weight[3] * yaw_error(x_t[3], goal[3]) * yaw_error(x_t[3], goal[3])

\* _phi: terminal cost
_phi(x_T) == terminal_cost_weight[1] * (x_T[1] - goal[1]) * (x_T[1] - goal[1])
           + terminal_cost_weight[2] * (x_T[2] - goal[2]) * (x_T[2] - goal[2])
           + terminal_cost_weight[3] * yaw_error(x_T[3], goal[3]) * yaw_error(x_T[3], goal[3])

\* rho = S.min()
rho_zero(Sv) == 0
rho_of(Sv) == MinSeq(Sv)

\* _compute_weights: w[k] = (1/eta) * exp(-(1/lambda) * (S[k] - rho)), kept as
\* the fraction num/den with den = eta (den = 0: the division by 0.0 gave NaN)
_compute_weights_unnormalised(Sv) ==
    [j \in 1..Len(Sv) |-> [num |-> ExpNeg(Sv[j] - rho_of(Sv)), den |-> 1]]
_compute_weights(Sv) ==
    LET rho == rho_of(Sv)
        e   == [j \in 1..Len(Sv) |-> ExpNeg(Sv[j] - rho)]
        eta == SumSeq(e)
    IN  [j \in 1..Len(Sv) |-> [num |-> e[j], den |-> eta]]

\* sum of col[lo..hi] (1-based, empty when lo > hi)
RECURSIVE SumRange(_, _, _)
SumRange(col, lo, hi) == IF lo > hi THEN 0 ELSE col[lo] + SumRange(col, lo + 1, hi)

\* np.convolve(col, np.ones(W)/W, mode="same")[i], i 0-based, for len(col) >= W,
\* in units of 1/W: entry i of the full convolution shifted by (W-1)//2
ConvSame(col, W, i) ==
    LET n  == i + ((W - 1) \div 2)
        lo == IF n - W + 1 > 0 THEN n - W + 1 ELSE 0
        hi == IF n < Len(col) - 1 THEN n ELSE Len(col) - 1
    IN  SumRange(col, lo + 1, hi + 1)

\* n_conv = math.ceil(window_size/2)
n_conv(W) == (W + 1) \div 2

\* the divisor position i (0-based) ends with: 1/W from the kernel, times the
\* edge factor W/n_conv, W/(i+n_conv) or W/(i+n_conv-(W%2)) where one is applied
EdgeDivisor(i, T, W) ==
    IF i = 0 THEN n_conv(W)
    ELSE IF i < n_conv(W) THEN i + n_conv(W)
    ELSE IF T - i < n_conv(W) THEN (T - i) + n_conv(W) - (W % 2)
    ELSE W

Column(xx, d) == [i \in 1..Len(xx) |-> xx[i][d]]

\* _moving_average_filter.  For len(xx) < window_size np.convolve returns
\* window_size values (or rejects an empty xx) and the assignment into the
\* column of xx_mean raises ValueError.
_moving_average_filter(xx, W) ==
    IF Len(xx) < W
    THEN [raised |-> TRUE, val |-> <<>>]
    ELSE [raised |-> FALSE,
          val |-> [i \in 1..Len(xx) |->
                     [d \in 1..dim_u |->
                        RoundDiv(ConvSame(Column(xx, d), W, i - 1),
                                 EdgeDivisor(i - 1, Len(xx), W))]]]

\* _affine_transform: rotate by angle, translate, and repeat the first point
_affine_transform(xlist, ylist, angle, translation) ==
    LET tx == [i \in 1..Len(xlist) |->
                 xlist[i] * Cos(angle) - ylist[i] * Sin(angle) + translation[1]]
        ty == [i \in 1..Len(xlist) |->
                 xlist[i] * Sin(angle) + ylist[i] * Cos(angle) + translation[2]]
    IN  << Append(tx, tx[1]), Append(ty, ty[1]) >>

\* the key points of the footprint, scaled by the safety margin
half_vl == (robot_l * safety_margin_rate_num) \div (2 * safety_margin_rate_den)
half_vw == (robot_w * safety_margin_rate_num) \div (2 * safety_margin_rate_den)
robot_shape_x == << -half_vl, -half_vl, 0, half_vl, half_vl, half_vl, 0, -half_vl, -half_vl >>
robot_shape_y == << 0, half_vw, half_vw, half_vw, 0, -half_vw, -half_vw, -half_vw, 0 >>

\* _is_collided: some key point lies strictly inside some obstacle circle
_is_collided(x_t, obstacle_circles) ==
    LET rot == _affine_transform(robot_shape_x, robot_shape_y, x_t[3], <<x_t[1], x_t[2]>>)
    IN  \E o \in 1..Len(obstacle_circles) : \E p \in 1..Len(rot[1]) :
          (rot[1][p] - obstacle_circles[o][1]) * (rot[1][p] - obstacle_circles[o][1])
        + (rot[2][p] - obstacle_circles[o][2]) * (rot[2][p] - obstacle_circles[o][2])
        < obstacle_circles[o][3] * obstacle_circles[o][3]

----------------------------------------------------------------------------
(* Configurations handed to the constructor.  sigma is in tenths:          *)
(* SigmaDefault is [[0.2, 0.0], [0.0, 0.3]].                               *)

SigmaDefault    == << <<2, 0>>, <<0, 3>> >>
SigmaNonSquare  == << <<2, 0, 0>>, <<0, 3, 0>> >>
SigmaWrongDim   == << <<2, 0, 0>>, <<0, 3, 0>>, <<0, 0, 1>> >>
SigmaSingular   == << <<0, 0>>, <<0, 0>> >>
SigmaIndefinite == << <<1, 2>>, <<2, 1>> >>

Det2(m) == m[1][1] * m[2][2] - m[1][2] * m[2][1]

\* square, of dimension dim_u, symmetric and positive-definite
ValidSigma(m) ==
    /\ Len(m) = dim_u
    /\ \A i \in 1..Len(m) : Len(m[i]) = dim_u
    /\ m[1][2] = m[2][1]
    /\ m[1][1] > 0
    /\ Det2(m) > 0

ValidConfig(c) == ValidSigma(c.sigma) /\ c.T >= 1 /\ c.K >= 1

\* param_exploration as the fraction num/den
NoExploration   == <<0, 1>>
HalfExploration == <<1, 2>>

BaseConfig == [T |-> horizon_step_T, K |-> 1, sigma |-> SigmaDefault,
               explore |-> NoExploration, vis_opt |-> FALSE, vis_samp |-> FALSE]

RunConfigs ==
    { [BaseConfig EXCEPT !.K = kk[1], !.explore = kk[2], !.vis_opt = a, !.vis_samp = b] :
        kk \in { <<1, NoExploration>>, <<2, NoExploration>>, <<2, HalfExploration>> },
        a \in BOOLEAN, b \in BOOLEAN }

ShortHorizonConfigs == { [BaseConfig EXCEPT !.T = t] : t \in {1, window_size - 1} }

BadConfigs ==
       { [BaseConfig EXCEPT !.sigma = m] :
           m \in {SigmaNonSquare, SigmaWrongDim, SigmaSingular, SigmaIndefinite} }
  \cup { [BaseConfig EXCEPT !.T = t] : t \in {0, -1} }
  \cup { [BaseConfig EXCEPT !.K = n] : n \in {0, -1} }

Configs == RunConfigs \cup ShortHorizonConfigs \cup BadConfigs

\* observed states handed to calc_control_input
ObsSet == { <<0, 0, 0>>, <<14, 5, 1>> }

\* noise sequences: value a on the first half of the horizon, b on the rest
NoisePairs == { << <<3, 0>>, <<3, 0>> >>,
                << <<0, 1>>, <<-1, -3>> >>,
                << <<-3, 2>>, <<1, 0>> >> }

StepSeq(T, a, b) == [t \in 1..T |-> IF 2 * t <= T THEN a ELSE b]

NoiseSeqs(T) == { StepSeq(T, p[1], p[2]) : p \in NoisePairs }

Zeros(n, z) == [i \in 1..n |-> z]

NoRet == [kind |-> "none"]

----------------------------------------------------------------------------
(* Handles.                                                                *)

\* u = self.u_prev : the local name u is bound to the array of self.u_prev
LoadU == "u_prev"

\* the value a handle shows now
Deref(h) == IF "row" \in DOMAIN h THEN heap[h.array][h.row] ELSE heap[h.array]

----------------------------------------------------------------------------
(* The constructor.                                                        *)

\* __init__: stores its arguments unchecked; np.zeros((T, dim_u)) rejects T < 0
__init__ ==
    /\ solver = "unbuilt"
    /\ IF cfg.T < 0
       THEN /\ solver' = "rejected"
            /\ heap' = heap
       ELSE /\ solver' = "built"
            /\ heap' = [u_prev |-> Zeros(cfg.T, <<0, 0>>)]
    /\ UNCHANGED <<cfg, pc, x0, epsilon, v, S, updated, seen, drawn, w_epsilon,
                   received, ret, k, calls, probe>>

----------------------------------------------------------------------------
(* calc_control_input, in the order of its statements.                     *)

\* _calc_epsilon raises ValueError on a sigma that is not dim_u x dim_u
calc_epsilon_raises(sigma, size_dim_u) ==
    \/ Len(sigma) /= Len(sigma[1])
    \/ Len(sigma) /= size_dim_u
    \/ size_dim_u < 1

\* entry: load u and x0, allocate S, draw epsilon, allocate v
Call ==
    /\ solver = "built" /\ pc = "idle" /\ calls < MaxCalls
    /\ calls' = calls + 1
    /\ \E obs \in ObsSet :
         IF cfg.K < 0 \/ calc_epsilon_raises(cfg.sigma, dim_u)
         THEN /\ ret' = [kind |-> "raise", exc |-> "ValueError", at |-> "entry"]
              /\ UNCHANGED <<pc, x0, epsilon, v, S, k, seen, drawn, w_epsilon>>
         ELSE /\ \E eps \in [1..cfg.K -> NoiseSeqs(cfg.T)] :
                   epsilon' = eps /\ drawn' = eps
              /\ seen' = << heap[LoadU] >>
              /\ w_epsilon' = <<>>
              /\ x0' = obs
              /\ S' = Zeros(cfg.K, 0)
              /\ v' = Zeros(cfg.K, Zeros(cfg.T, <<0, 0>>))
              /\ k' = 0
              /\ pc' = IF cfg.K = 0 THEN "update" ELSE "rollout"
              /\ ret' = ret
    /\ UNCHANGED <<cfg, solver, heap, updated, received, probe>>

\* k < (1.0 - param_exploration) * K, k counted from 0
Exploits(k0, c) == k0 * c.explore[2] < (c.explore[2] - c.explore[1]) * c.K

\* u.T @ inv(Sigma) @ vv, Sigma in tenths: 10 * (u.T @ adj(M) @ vv) / det(M)
QuadInvSigma(m, uu, vv) ==
    LET q == uu[1] * (m[2][2] * vv[1] - m[1][2] * vv[2])
           + uu[2] * (m[1][1] * vv[2] - m[2][1] * vv[1])
        d == Det2(m)
    IN  IF d > 0 THEN RoundDiv(10 * param_gamma * q, d)
                 ELSE RoundDiv(-10 * param_gamma * q, -d)

\* the body of the t loop for sample k0, from step t on: [x, cost, vrow]
RECURSIVE RolloutFrom(_, _, _, _, _, _, _)
RolloutFrom(c, u, eps, k0, t, acc, m) ==
    IF t > c.T THEN acc
    ELSE LET raw  == IF Exploits(k0, c)
                     THEN << u[t][1] + eps[t][1], u[t][2] + eps[t][2] >>
                     ELSE eps[t]
             sat  == _g(raw)
             x    == _F(acc.x, sat)
             cost == acc.cost + _c(x) + QuadInvSigma(m, u[t], sat)
         IN  RolloutFrom(c, u, eps, k0, t + 1,
                         [x |-> x, cost |-> cost, vrow |-> [acc.vrow EXCEPT ![t] = sat]], m)

u_after_rollout_in_place(u, vrow) == vrow

epsilon_after_rollout_view(c, eps, k0, vrow) == IF Exploits(k0, c) THEN eps ELSE vrow

\* u after the t loop of one sample: v[k, t-1] = u[t-1] + epsilon[k, t-1]
\* stores a new sum in v, and _g writes into that slot of v, so u is only read
u_after_rollout(u, vrow) == u

\* epsilon[k] after the t loop of sample k0: v[k, t-1] = epsilon[k, t-1] copies
\* the values into v, and _g writes into that slot of v, so epsilon is only read
epsilon_after_rollout(c, eps, k0, vrow) == eps

\* one pass of the k loop: roll sample k out, store v[k] (saturated in place
\* by _g) and S[k]; np.linalg.inv raises LinAlgError on a singular Sigma
Rollout ==
    /\ pc = "rollout" /\ k < cfg.K
    /\ IF cfg.T >= 1 /\ Det2(cfg.sigma) = 0
       THEN /\ ret' = [kind |-> "raise", exc |-> "LinAlgError", at |-> "rollout"]
            /\ pc' = "idle"
            /\ UNCHANGED <<v, S, k, heap, epsilon, seen>>
       ELSE LET r == RolloutFrom(cfg, heap[LoadU], epsilon[k + 1], k, 1,
                                 [x |-> x0, cost |-> 0, vrow |-> v[k + 1]], cfg.sigma)
            IN  /\ v' = [v EXCEPT ![k + 1] = r.vrow]
                /\ S' = [S EXCEPT ![k + 1] = r.cost + _phi(r.x)]
                /\ seen' = Append(seen, heap[LoadU])
                /\ heap' = [heap EXCEPT ![LoadU] = u_after_rollout(heap[LoadU], r.vrow)]
                /\ epsilon' = [epsilon EXCEPT ![k + 1] =
                                 epsilon_after_rollout(cfg, epsilon[k + 1], k, r.vrow)]
                /\ k' = k + 1
                /\ pc' = IF k + 1 = cfg.K THEN "update" ELSE "rollout"
                /\ ret' = ret
    /\ UNCHANGED <<cfg, solver, x0, updated, drawn, w_epsilon, received, calls, probe>>

\* w_epsilon[t] = sum over k of w[k] * epsilon[k, t]
WeightedNoise(w, eps, T) ==
    [t \in 1..T |->
       [d \in 1..dim_u |->
          RoundDiv(SumSeq([kk \in 1..Len(w) |-> w[kk].num * eps[kk][t][d]]), w[1].den)]]

AddSeq(a, b) == [t \in 1..Len(a) |-> << a[t][1] + b[t][1], a[t][2] + b[t][2] >>]

\* weights, weighted noise, smoothing, u += w_epsilon.  S.min() raises
\* ValueError on an empty S, the filter on a horizon shorter than its window.
Update ==
    /\ pc = "update"
    /\ IF cfg.K = 0
       THEN /\ ret' = [kind |-> "raise", exc |-> "ValueError", at |-> "weights"]
            /\ pc' = "idle"
            /\ UNCHANGED <<heap, updated, w_epsilon>>
       ELSE LET w  == _compute_weights(S)
                we == WeightedNoise(w, epsilon, cfg.T)
                f  == _moving_average_filter(we, window_size)
            IN  /\ w_epsilon' = we
                /\ IF f.raised
                   THEN /\ ret' = [kind |-> "raise", exc |-> "ValueError", at |-> "filter"]
                        /\ pc' = "idle"
                        /\ UNCHANGED <<heap, updated>>
                   ELSE /\ heap' = [heap EXCEPT ![LoadU] = AddSeq(heap[LoadU], f.val)]
                        /\ updated' = heap'[LoadU]
                        /\ pc' = "diag"
                        /\ ret' = ret
    /\ UNCHANGED <<cfg, solver, x0, epsilon, v, S, seen, drawn, received, k, calls, probe>>

\* the states x = _F(x, _g(useq[t])) for t = 1..T from x
RECURSIVE Trajectory(_, _, _)
Trajectory(x, useq, t) ==
    IF t > Len(useq) THEN <<>>
    ELSE LET nx == _F(x, _g(useq[t])) IN <<nx>> \o Trajectory(nx, useq, t + 1)

Saturated(useq) == [t \in 1..Len(useq) |-> _g(useq[t])]

\* the optimal trajectory.  _g(u[t]) writes the saturated control into the
\* row u[t] of the array u names.
Diagnostics ==
    /\ pc = "diag"
    /\ heap' = IF cfg.vis_opt
               THEN [heap EXCEPT ![LoadU] = Saturated(heap[LoadU])]
               ELSE heap
    /\ pc' = "shift"
    /\ UNCHANGED <<cfg, solver, x0, epsilon, v, S, updated, seen, drawn, w_epsilon,
                   received, ret, k, calls, probe>>

ShiftLeft(useq) ==
    [t \in 1..Len(useq) |-> IF t < Len(useq) THEN useq[t + 1] ELSE useq[Len(useq)]]

OptimalTraj ==
    IF cfg.vis_opt THEN Trajectory(x0, heap[LoadU], 1) ELSE Zeros(cfg.T, <<0, 0, 0>>)

\* np.argsort(costs): the sample indices by ascending cost, ties by index
RECURSIVE argsort_from(_, _)
argsort_from(costs, left) ==
    IF left = {} THEN <<>>
    ELSE LET best == CHOOSE i \in left :
                       \A j \in left : costs[i] < costs[j] \/ (costs[i] = costs[j] /\ i <= j)
         IN  <<best>> \o argsort_from(costs, left \ {best})

argsort(costs) == argsort_from(costs, 1..Len(costs))

\* for k in sorted_idx: ... sampled_traj_list[k, t] = x, from position n of
\* sorted_idx on: the trajectory of sample k is stored at index k of the list
RECURSIVE FillSampled(_, _, _)
FillSampled(list, sorted_idx, n) ==
    IF n > Len(sorted_idx) THEN list
    ELSE LET kk == sorted_idx[n]
         IN  FillSampled([list EXCEPT ![kk] = Trajectory(x0, v[kk], 1)], sorted_idx, n + 1)

SampledTrajList ==
    LET zeros == Zeros(cfg.K, Zeros(cfg.T, <<0, 0, 0>>))
    IN  IF cfg.vis_samp THEN FillSampled(zeros, argsort(S), 1) ELSE zeros

\* self.u_prev[:-1] = u[1:]; self.u_prev[-1] = u[-1]; return u[0], u, ...
ShiftReturn ==
    /\ pc = "shift"
    /\ heap' = [heap EXCEPT !["u_prev"] = ShiftLeft(heap[LoadU])]
    /\ ret' = [kind |-> "value",
               action |-> [array |-> LoadU, row |-> 1],
               seq |-> [array |-> LoadU],
               optimal_traj |-> OptimalTraj,
               sampled_traj_list |-> SampledTrajList]
    /\ received' = [action |-> heap'[LoadU][1], seq |-> heap'[LoadU]]
    /\ pc' = "idle"
    /\ UNCHANGED <<cfg, solver, x0, epsilon, v, S, updated, seen, drawn, w_epsilon,
                   k, calls, probe>>

NoProbe == [op |-> "none"]

Init ==
    /\ cfg \in Configs
    /\ solver = "unbuilt"
    /\ heap = [u_prev |-> <<>>]
    /\ pc = "idle"
    /\ x0 = <<0, 0, 0>>
    /\ epsilon = <<>>
    /\ v = <<>>
    /\ S = <<>>
    /\ updated = <<>>
    /\ seen = <<>>
    /\ drawn = <<>>
    /\ w_epsilon = <<>>
    /\ received = NoRet
    /\ ret = NoRet
    /\ k = 0
    /\ calls = 0
    /\ probe = NoProbe

Next == __init__ \/ Call \/ Rollout \/ Update \/ Diagnostics \/ ShiftReturn

Spec == Init /\ [][Next]_vars

----------------------------------------------------------------------------
(* The pure functions applied to inputs drawn from bounded sets.           *)

CostVals == {-100, 0, 100, 1000}

ProbeWeights ==
    /\ probe.op = "none"
    /\ \E n \in 1..MaxK : \E Sv \in [1..n -> CostVals] :
         probe' = [op |-> "weights", arg |-> Sv, out |-> _compute_weights(Sv)]
    /\ UNCHANGED solverVars

GoalYaws == {-1, 0, 1, 2}

ProbeYawError ==
    /\ probe.op = "none"
    /\ \E yaw \in -MaxTurn..MaxTurn : \E gyaw \in GoalYaws :
         probe' = [op |-> "yaw_error", arg |-> <<yaw, gyaw>>, out |-> yaw_error(yaw, gyaw)]
    /\ UNCHANGED solverVars

FilterVals == { <<-3, 2>>, <<1, 0>>, <<7, -7>> }
FilterWindows == {3, 4, window_size}

ProbeFilter ==
    /\ probe.op = "none"
    /\ \E T \in 1..MaxT : \E W \in FilterWindows :
       \E a \in FilterVals : \E b \in FilterVals :
         LET xx == StepSeq(T, a, b) IN
         probe' = [op |-> "filter", arg |-> [xx |-> xx, window_size |-> W],
                   out |-> _moving_average_filter(xx, W)]
    /\ UNCHANGED solverVars

\* obstacle circles [x, y, radius] and poses, in centimetres
ObstacleSets ==
       { << <<800, 500, 100>>, <<1800, -500, 150>> >>,
         << <<-200, 100, 100>>, <<200, -100, 100>> >> }
  \cup { << <<500, 500, r>> >> : r \in {1, 30, 36, 37, 48, 49, 61, 100} }

FarPoses == { <<20000, 20000>>, <<-20000, 300>> }

ProbeCollide ==
    /\ probe.op = "none"
    /\ \E obs \in ObstacleSets : \E yaw \in 0..3 :
       \E xy \in { <<obs[o][1], obs[o][2]>> : o \in 1..Len(obs) } \cup FarPoses :
         LET x_t == <<xy[1], xy[2], yaw>> IN
         probe' = [op |-> "collide", arg |-> [x_t |-> x_t, obstacle_circles |-> obs],
                   out |-> _is_collided(x_t, obs)]
    /\ UNCHANGED solverVars

StepPositions == { <<0, 0>>, <<7, -4>> }
StepControls == {-3, -2, 0, 1, 3}
StepDts == {0, delta_t, 2 * delta_t}

\* one step of the plant and one step of the rollout from the same state
\* under the same control
ProbeStep ==
    /\ probe.op = "none"
    /\ \E xy \in StepPositions : \E yaw \in -MaxTurn..MaxTurn :
       \E uv \in StepControls : \E uw \in StepControls : \E dt_arg \in StepDts :
         LET state == <<xy[1], xy[2], yaw>>
             u == <<uv, uw>>
         IN  probe' = [op |-> "step",
                       arg |-> [state |-> state, u |-> u, delta_t |-> dt_arg],
                       out |-> [dt |-> update_dt(dt_arg),
                                plant |-> update(state, u, dt_arg),
                                rollout |-> _F(state, _g(u))]]
    /\ UNCHANGED solverVars

InitFn ==
    /\ cfg = BaseConfig
    /\ solver = "unbuilt"
    /\ heap = [u_prev |-> <<>>]
    /\ pc = "idle"
    /\ x0 = <<0, 0, 0>>
    /\ epsilon = <<>>
    /\ v = <<>>
    /\ S = <<>>
    /\ updated = <<>>
    /\ seen = <<>>
    /\ drawn = <<>>
    /\ w_epsilon = <<>>
    /\ received = NoRet
    /\ ret = NoRet
    /\ k = 0
    /\ calls = 0
    /\ probe = NoProbe

NextFn == ProbeWeights \/ ProbeYawError \/ ProbeFilter \/ ProbeCollide \/ ProbeStep

SpecFn == InitFn /\ [][NextFn]_vars

----------------------------------------------------------------------------
(* Claims.                                                                 *)

\* the call has just returned, on a solver built from a valid configuration
Returned == pc = "idle" /\ ret.kind = "value" /\ ValidConfig(cfg)

WithinLimits(u) == Abs(u[1]) <= max_linear_vel /\ Abs(u[2]) <= max_angular_vel

\* C1: every action calc_control_input returns has |v| <= max_linear_vel and
\* |w| <= max_angular_vel.
ReturnedActionWithinLimits ==
    Returned => WithinLimits(Deref(ret.action))

\* C2: the returned action is entry 0 of the updated sequence u (warm start
\* plus smoothed weighted perturbation) and the returned sequence is that
\* updated u, as it was before the warm-start shift.
ReturnsUpdatedSequence ==
    Returned => Deref(ret.action) = updated[1] /\ Deref(ret.seq) = updated

\* C3: after a call, u_prev[i] is entry i+1 of the returned sequence for
\* i in 0..T-2, and u_prev[T-1] is entry T-1 of the returned sequence.
WarmStartIsShiftOfReturned ==
    Returned =>
        /\ \A i \in 1..(cfg.T - 1) : heap["u_prev"][i] = Deref(ret.seq)[i + 1]
        /\ heap["u_prev"][cfg.T] = Deref(ret.seq)[cfg.T]

AllDen(w, d) == \A i \in 1..Len(w) : w[i].den = d

\* C4: for a finite, non-empty cost vector of length K, _compute_weights
\* returns K weights, each non-negative, that sum to 1.
WeightsSumToOne ==
    probe.op = "weights" =>
        LET w == probe.out IN
        /\ Len(w) = Len(probe.arg)
        /\ w[1].den > 0
        /\ AllDen(w, w[1].den)
        /\ \A i \in 1..Len(w) : w[i].num >= 0
        /\ SumSeq([i \in 1..Len(w) |-> w[i].num]) = w[1].den

WeightsSumToOneWitness ==
    /\ probe.op = "weights"
    /\ probe.arg = <<1000, -100, 0>>
    /\ probe.out[1].num = 0
    /\ probe.out[2].num > probe.out[3].num
    /\ probe.out[3].num > 0

\* C5: when all K costs are identical, every weight equals 1/K.
EqualCostsGiveUniformWeights ==
    (probe.op = "weights" /\ \A i \in 1..Len(probe.arg) : probe.arg[i] = probe.arg[1]) =>
        \A i \in 1..Len(probe.out) :
            probe.out[i].den > 0 /\ probe.out[i].num * Len(probe.arg) = probe.out[i].den

EqualCostsWitness ==
    /\ probe.op = "weights"
    /\ probe.arg = <<1000, 1000, 1000>>
    /\ probe.out[2].num * 3 = probe.out[2].den

IsConstantSeq(xx) == \A i \in 1..Len(xx) : xx[i] = xx[1]

\* C7: a T-step input with the same value at every step comes back from
\* _moving_average_filter with that value at every one of the T positions.
FilterKeepsConstantInput ==
    (probe.op = "filter" /\ IsConstantSeq(probe.arg.xx)) =>
        ~probe.out.raised /\ probe.out.val = probe.arg.xx

\* the same, for inputs at least as long as the window
FilterKeepsConstantInputOfWindowLength ==
    (probe.op = "filter" /\ IsConstantSeq(probe.arg.xx)
        /\ Len(probe.arg.xx) >= probe.arg.window_size) =>
        ~probe.out.raised /\ probe.out.val = probe.arg.xx

AtObstacleCentre(a) ==
    \E o \in 1..Len(a.obstacle_circles) :
        /\ a.obstacle_circles[o][3] > 0
        /\ a.x_t[1] = a.obstacle_circles[o][1]
        /\ a.x_t[2] = a.obstacle_circles[o][2]

\* farther from every centre than ten times (radius + footprint length + width)
FarFromObstacles(a) ==
    \A o \in 1..Len(a.obstacle_circles) :
        LET dx == a.x_t[1] - a.obstacle_circles[o][1]
            dy == a.x_t[2] - a.obstacle_circles[o][2]
            far == 10 * (a.obstacle_circles[o][3] + 2 * half_vl + 2 * half_vw)
        IN  dx * dx + dy * dy > far * far

\* C8: _is_collided is true for a pose at the centre of an obstacle of radius
\* > 0, whatever the radius and heading, and false for a pose far from all
\* obstacles.
CollidedAtCentreNotFar ==
    probe.op = "collide" =>
        /\ (AtObstacleCentre(probe.arg) => probe.out)
        /\ (FarFromObstacles(probe.arg) => ~probe.out)

\* C9: a configuration error never yields a solver.
BuiltOnlyFromValidConfig ==
    solver = "built" => ValidConfig(cfg)

\* C10: on a solver built from a valid configuration calc_control_input
\* never raises.
ValidConfigNeverRaises ==
    (solver = "built" /\ ValidConfig(cfg)) => ret.kind /= "raise"

\* the K rollouts of the running call are done and u is not yet written
RolloutsDone == solver = "built" /\ pc = "update" /\ cfg.K >= 1

\* C11: within one call u_prev is only read while the K rollouts run: every
\* rollout reads the values u_prev had at entry, and u_prev still holds them
\* when the last rollout has completed; the first write comes after that.
RolloutsSeeEntryWarmStart ==
    /\ \A i \in 1..Len(seen) : seen[i] = seen[1]
    /\ pc \in {"rollout", "update"} => heap[LoadU] = seen[1]
    /\ RolloutsDone => Len(seen) = cfg.K + 1

\* two rollouts of a second call read a warm start that is not all zero, and
\* the update then writes it
RolloutsSeeEntryWarmStartWitness ==
    /\ pc = "diag" /\ calls = 2 /\ cfg.K = 2
    /\ Len(seen) = 3
    /\ seen[1] /= Zeros(cfg.T, <<0, 0>>)
    /\ heap[LoadU] /= seen[1]

\* some control of sample kk was changed by the saturation
SaturationActed(kk) ==
    \E t \in 1..cfg.T :
       v[kk][t] /= (IF Exploits(kk - 1, cfg)
                    THEN << seen[1][t][1] + drawn[kk][t][1], seen[1][t][2] + drawn[kk][t][2] >>
                    ELSE drawn[kk][t])

\* C12: the weighted perturbation at step t is the sum over k of
\* weight[k] * noise[k, t] over the noise exactly as drawn; saturating the
\* perturbed controls of the rollouts leaves the noise array unchanged.
WeightedNoiseOverDrawnNoise ==
    /\ pc \in {"rollout", "update", "diag", "shift"} => epsilon = drawn
    /\ w_epsilon /= <<>> =>
         LET w == _compute_weights(S) IN
         \A t \in 1..cfg.T : \A d \in 1..dim_u :
            w_epsilon[t][d] =
               RoundDiv(SumSeq([kk \in 1..cfg.K |-> w[kk].num * drawn[kk][t][d]]), w[1].den)

\* an exploiting and an exploring sample were both saturated, and the weighted
\* noise was then computed
WeightedNoiseWitness ==
    /\ pc = "diag" /\ cfg.K = 2 /\ cfg.explore = HalfExploration
    /\ Exploits(0, cfg) /\ ~Exploits(1, cfg)
    /\ SaturationActed(1) /\ SaturationActed(2)
    /\ w_epsilon /= Zeros(cfg.T, <<0, 0>>)

\* p lists every sample once, by ascending cost
AscendingCostOrder(p) ==
    /\ \A i \in 1..cfg.K : \E j \in 1..cfg.K : p[j] = i
    /\ \A i \in 1..cfg.K : \A j \in 1..cfg.K : i < j => S[p[i]] <= S[p[j]]

\* C13: with the sampled-trajectory diagnostics enabled, the K returned
\* trajectories are ordered by ascending sample cost: index 0 holds the
\* trajectory of the cheapest sample, the next index the next cheapest.
SampledTrajsByAscendingCost ==
    (Returned /\ cfg.vis_samp) =>
        \E p \in [1..cfg.K -> 1..cfg.K] :
           /\ AscendingCostOrder(p)
           /\ \A i \in 1..cfg.K :
                 ret.sampled_traj_list[i] = Trajectory(x0, v[p[i]], 1)

\* the list holds the trajectory of sample k at index k, whatever the costs
SampledTrajsBySampleIndex ==
    (Returned /\ cfg.vis_samp) =>
        \A i \in 1..cfg.K : ret.sampled_traj_list[i] = Trajectory(x0, v[i], 1)

\* C14: DifferentialDriveRobot.update and _F(_g(u)) are the same transition
\* for every state and control when their integration steps are equal:
\* x + v*cos(yaw)*dt, y + v*sin(yaw)*dt, yaw + w*dt with v and w clipped to
\* the limits; neither wraps the heading.
PlantStepIsRolloutStep ==
    (probe.op = "step" /\ probe.out.dt = delta_t) =>
        LET x  == probe.arg.state
            vv == Clip(probe.arg.u[1], -max_linear_vel, max_linear_vel)
            ww == Clip(probe.arg.u[2], -max_angular_vel, max_angular_vel)
        IN  /\ probe.out.plant = probe.out.rollout
            /\ probe.out.plant = << x[1] + vv * Cos(x[3]) * delta_t,
                                    x[2] + vv * Sin(x[3]) * delta_t,
                                    x[3] + ww * delta_t >>

\* both controls are beyond their limits and the new heading is past pi
PlantStepWitness ==
    /\ probe.op = "step" /\ probe.out.dt = delta_t
    /\ probe.arg.u[1] > max_linear_vel /\ probe.arg.u[2] > max_angular_vel
    /\ probe.arg.state[3] = 1
    /\ probe.out.plant[3] > PI
    /\ probe.out.plant[2] /= probe.arg.state[2]

\* what a call returns and leaves as the next warm start when both
\* diagnostic flags are off, from the u its update produced: Update reads no
\* flag, and with the flags off nothing but the shift touches u after it
ControlWithFlagsOff == ShiftLeft(updated)

\* C15: the diagnostic flags do not influence control: from the same observed
\* state, warm start and noise a call returns the same action and sequence
\* and leaves the same next warm-start buffer whether visualize_optimal_traj
\* and visualze_sampled_trajs are on or off.
FlagsDoNotInfluenceControl ==
    Returned =>
        /\ Deref(ret.action) = ControlWithFlagsOff[1]
        /\ Deref(ret.seq) = ControlWithFlagsOff
        /\ heap["u_prev"] = ControlWithFlagsOff

\* the same, for the flag of the sampled trajectories alone
SampledFlagDoesNotInfluenceControl ==
    (Returned /\ ~cfg.vis_opt) =>
        /\ Deref(ret.action) = ControlWithFlagsOff[1]
        /\ Deref(ret.seq) = ControlWithFlagsOff
        /\ heap["u_prev"] = ControlWithFlagsOff

\* C16: the action and the sequence a call returned keep the values the
\* caller received: a later call does not change them.
ReturnedValuesKeepTheirValues ==
    (ret.kind = "value" /\ ValidConfig(cfg)) =>
        /\ Deref(ret.action) = received.action
        /\ Deref(ret.seq) = received.seq
====
